---------------------------- MODULE Spec2Model ----------------------------
(***************************************************************************)
(* Hildebrand Glow integration: the Glowmarkt API client (api.py) and the  *)
(* data update coordinator (coordinator.py).                               *)
(*                                                                         *)
(* Units.  Python floats are modelled as fixed-point integers:             *)
(*   interval values   1e-4 kWh   (so that round(total, 3) has work to do) *)
(*   daily readings    1e-3 kWh   (the result of round(total, 3))          *)
(*   unit rates        1e-3 GBP per kWh                                    *)
(*   standing charges  1e-2 GBP   (pence)                                  *)
(*   costs             1e-2 GBP   (the result of round(x, 2))              *)
(* round() is Python's round-half-to-even, taken on the exact decimal      *)
(* value; binary representation error of floats is not modelled.           *)
(*                                                                         *)
(* An optional value (Python's None or a value) is a sequence of length    *)
(* at most one: None is << >> and a value v is << v >>.                    *)
(* A dict whose order matters (the resource catalog) is a sequence of      *)
(* entries with distinct keys, in insertion order; a dict whose order is   *)
(* never read is a function on its set of keys.                            *)
(***************************************************************************)
EXTENDS Integers, Sequences, FiniteSets, TLC

(* ------------------------------ bounds -------------------------------- *)

\* Days on the clock; the token lifetime is 6 days, so a token is met at its
\* expiry instant (day 6) and expired (day 12).
MaxTime == 12

\* Longest list of virtual entities a /virtualentity response carries.
MaxEntities == 2

\* Longest "resources" array of a resource-list response.
MaxResources == 2

\* Longest "data" array of a readings response given to get_daily_reading
\* on its own.
MaxIntervals == 3

\* Longest "data" array of a readings response met during a call or a cycle.
MaxFetched == 1

(* ------------------------- program constants -------------------------- *)

\* timedelta(days=6)
TokenLifetime == 6

\* round(total, 3): interval values carry one more decimal than readings.
ReadingDigits == 3

\* round(cost, 2)
CostDigits == 2

\* Decimals of a unit rate (0.245 GBP per kWh).
RateDigits == 3

DEFAULT_ELECTRICITY_RATE == 245

DEFAULT_GAS_RATE == 65

DEFAULT_ELECTRICITY_STANDING_CHARGE == 45

DEFAULT_GAS_STANDING_CHARGE == 30

CLASSIFIER_ELECTRICITY_CONSUMPTION == "electricity.consumption"

CLASSIFIER_GAS_CONSUMPTION == "gas.consumption"

(* ------------------------------ helpers ------------------------------- *)

None == << >>

Some(v) == << v >>

IsNone(o) == o = << >>

Val(o) == o[1]

\* Python's round(): to the nearest multiple of d, ties to the even one.
\* n \div d is the floor and n % d is in 0..d-1, also for negative n.
RoundHalfEven(n, d) ==
    LET q == n \div d
        r == n % d
    IN  IF 2 * r < d THEN q
        ELSE IF 2 * r > d THEN q + 1
        ELSE IF q % 2 = 0 THEN q ELSE q + 1

RECURSIVE Pow10(_)
Pow10(k) == IF k = 0 THEN 1 ELSE 10 * Pow10(k - 1)

RECURSIVE SeqsUpTo(_, _)
\* All sequences over S of length at most n.
SeqsUpTo(S, n) ==
    IF n = 0 THEN { << >> }
    ELSE LET shorter == SeqsUpTo(S, n - 1)
         IN  shorter \cup { Append(s, x) : s \in shorter, x \in S }


(* --------------------------- input domains ---------------------------- *)

\* POST /auth on day t: a transport failure, or an HTTP status and a JSON
\* body.  The token issued on day t is named by t, so that a token issued
\* later differs from the one it replaces.
AuthResponses(t) ==
    { [status |-> "transport", valid |-> FALSE, token |-> 0],
      [status |-> "401", valid |-> FALSE, token |-> 0],
      [status |-> "500", valid |-> FALSE, token |-> 0],
      [status |-> "200", valid |-> FALSE, token |-> 0],
      [status |-> "200", valid |-> TRUE, token |-> t] }

\* The /auth responses a guarded call meets: one for each way authenticate
\* can end (a token, GlowmarktAuthError, GlowmarktApiError); authenticate on
\* its own is given all of AuthResponses.  No response is read when the
\* guard of _ensure_authenticated finds a token stored and not expired.
GuardResponses(tok, exp, t) ==
    IF IsNone(tok) \/ IsNone(exp) \/ t > Val(exp)
    THEN { r \in AuthResponses(t) : r.valid \/ r.status \in { "transport", "401" } }
    ELSE { [status |-> "200", valid |-> TRUE, token |-> t] }

\* An element of the /virtualentity list: its "veId", which may be missing.
VeEntries == { Some("ve1"), Some("ve2"), None }

\* The lists a /virtualentity body may be: every list of entities that have
\* a veId, and lists with an entity that has none.
VeLists ==
    SeqsUpTo({ e \in VeEntries : ~IsNone(e) }, MaxEntities)
        \cup { << None >>, << None, Some("ve1") >> }

\* GET /virtualentity: a failure, a body that is no list, or a list.
VeResponses ==
    { [status |-> "transport", is_list |-> FALSE, items |-> << >>],
      [status |-> "500", is_list |-> FALSE, items |-> << >>],
      [status |-> "200", is_list |-> FALSE, items |-> << >>] }
    \cup { [status |-> "200", is_list |-> TRUE, items |-> s] :
             s \in VeLists }

\* A resource descriptor: "resourceId" and "classifier", either may be missing.
ResourceDescriptors ==
    { [resourceId |-> Some("r1"), classifier |-> Some(CLASSIFIER_ELECTRICITY_CONSUMPTION)],
      [resourceId |-> Some("r2"), classifier |-> Some(CLASSIFIER_GAS_CONSUMPTION)],
      [resourceId |-> Some("r3"), classifier |-> Some(CLASSIFIER_ELECTRICITY_CONSUMPTION)],
      [resourceId |-> None, classifier |-> Some(CLASSIFIER_GAS_CONSUMPTION)],
      [resourceId |-> Some("r4"), classifier |-> None] }

\* The "resources" arrays a /virtualentity/{id}/resources body may carry:
\* every list of distinct complete descriptors, and each descriptor on its
\* own.
ResourceLists ==
    { l \in SeqsUpTo({ d \in ResourceDescriptors :
                         ~IsNone(d.resourceId) /\ ~IsNone(d.classifier) }, MaxResources) :
          \A i, j \in 1..Len(l) : i # j => l[i] # l[j] }
        \cup { << d >> : d \in ResourceDescriptors }

\* GET /virtualentity/{id}/resources.
ResourceResponses ==
    { [status |-> "transport", resources |-> << >>],
      [status |-> "500", resources |-> << >>] }
    \cup { [status |-> "200", resources |-> l] : l \in ResourceLists }

\* The value component of a [timestamp, value] pair: a number or null.
\* The numbers are chosen so that no sum is an exact rounding tie.
IntervalValues == { None, Some(0), Some(4), Some(12346) }

\* GET /resource/{id}/readings: a failure, or a body with "status" and "data"
\* (data: None when the key is missing, else the array of interval values),
\* the array being of length at most n.
ReadingResponses(values, n) ==
    { [status |-> "transport", api_status |-> "", data |-> None],
      [status |-> "500", api_status |-> "", data |-> None],
      [status |-> "200", api_status |-> "OK", data |-> None],
      [status |-> "200", api_status |-> "ERROR", data |-> Some(<< Some(12346) >>)] }
    \cup { [status |-> "200", api_status |-> "OK", data |-> Some(a)] :
             a \in SeqsUpTo(values, n) }

\* The readings responses met during a call or a cycle: a data array of
\* nulls only makes the reading 0.0, one with values a positive reading.
FetchResponses == ReadingResponses({ None, Some(12346) }, MaxFetched)

\* Resource ids a caller may pass to get_daily_reading.
ResourceIds == { "r1" }

\* dict[str, float] tariff configurations: the defaults and one other.
DefaultTariff ==
    [electricity_rate |-> DEFAULT_ELECTRICITY_RATE,
     gas_rate |-> DEFAULT_GAS_RATE,
     electricity_standing_charge |-> DEFAULT_ELECTRICITY_STANDING_CHARGE,
     gas_standing_charge |-> DEFAULT_GAS_STANDING_CHARGE]

Tariffs ==
    { DefaultTariff,
      [electricity_rate |-> 300, gas_rate |-> 70,
       electricity_standing_charge |-> 50, gas_standing_charge |-> 0] }

\* Days by which the clock is seen to advance between two steps: a token is
\* met fresh (age 0), at its expiry instant (age 6) and expired (age 12).
TickDays == { TokenLifetime }


(* ------------------------- api.py: exceptions ------------------------- *)

GlowmarktAuthError(msg) == [type |-> "GlowmarktAuthError", msg |-> msg]

GlowmarktApiError(msg) == [type |-> "GlowmarktApiError", msg |-> msg]

\* raise UpdateFailed(f"{prefix}: {err}") from err
UpdateFailed(prefix, err) ==
    [type |-> "UpdateFailed", msg |-> << prefix, err.msg >>]

\* A call of a function with one positional argument too many.
TypeError == [type |-> "TypeError", msg |-> "takes 1 positional argument but 2 were given"]

(* ----------------------- api.py: GlowmarktApiClient ------------------- *)

\* An authenticate that stores the token of any HTTP 200 answer.
authenticate_any_body(tok, exp, t, resp) ==
    IF resp.status = "transport"
    THEN [token |-> tok, token_expiry |-> exp,
          exc |-> Some(GlowmarktApiError("Connection error"))]
    ELSE IF resp.status = "401"
    THEN [token |-> tok, token_expiry |-> exp,
          exc |-> Some(GlowmarktAuthError("Invalid username or password"))]
    ELSE IF resp.status # "200"
    THEN [token |-> tok, token_expiry |-> exp,
          exc |-> Some(GlowmarktAuthError("Authentication failed"))]
    ELSE [token |-> Some(t), token_expiry |-> Some(t + TokenLifetime), exc |-> None]

\* An authenticate that forgets the stored token when it fails.
authenticate_forgetting(tok, exp, t, resp) ==
    IF resp.status = "transport"
    THEN [token |-> None, token_expiry |-> None,
          exc |-> Some(GlowmarktApiError("Connection error"))]
    ELSE IF resp.status = "401"
    THEN [token |-> None, token_expiry |-> None,
          exc |-> Some(GlowmarktAuthError("Invalid username or password"))]
    ELSE IF resp.status # "200"
    THEN [token |-> None, token_expiry |-> None,
          exc |-> Some(GlowmarktAuthError("Authentication failed"))]
    ELSE IF resp.valid
    THEN [token |-> Some(resp.token), token_expiry |-> Some(t + TokenLifetime),
          exc |-> None]
    ELSE [token |-> None, token_expiry |-> None,
          exc |-> Some(GlowmarktAuthError("Authentication failed: invalid response"))]

\* authenticate(): the client's token and expiry after the exchange, and the
\* exception raised (None when it returns True).
authenticate(tok, exp, t, resp) ==
    IF resp.status = "transport"
    THEN [token |-> tok, token_expiry |-> exp,
          exc |-> Some(GlowmarktApiError("Connection error"))]
    ELSE IF resp.status = "401"
    THEN [token |-> tok, token_expiry |-> exp,
          exc |-> Some(GlowmarktAuthError("Invalid username or password"))]
    ELSE IF resp.status # "200"
    THEN [token |-> tok, token_expiry |-> exp,
          exc |-> Some(GlowmarktAuthError("Authentication failed"))]
    ELSE IF resp.valid
    THEN [token |-> Some(resp.token), token_expiry |-> Some(t + TokenLifetime),
          exc |-> None]
    ELSE [token |-> tok, token_expiry |-> exp,
          exc |-> Some(GlowmarktAuthError("Authentication failed: invalid response"))]

\* A guard that authenticates on every call, whatever is stored.
AlwaysAuthenticate(tok, exp, t) == TRUE

\* The condition of _ensure_authenticated.
NeedsAuthentication(tok, exp, t) ==
    IsNone(tok) \/ IsNone(exp) \/ t > Val(exp)

\* Whether a request sent at time t with this client state carries a token
\* that is stored and not expired.
TokenValid(tok, exp, t) == ~IsNone(tok) /\ ~IsNone(exp) /\ t <= Val(exp)

\* _ensure_authenticated(): as authenticate, plus whether /auth was asked.
ensure_authenticated(tok, exp, t, resp) ==
    IF NeedsAuthentication(tok, exp, t)
    THEN [asked |-> TRUE] @@ authenticate(tok, exp, t, resp)
    ELSE [asked |-> FALSE, token |-> tok, token_expiry |-> exp, exc |-> None]

\* get_virtual_entities(), after its guard: the list returned, or the error.
get_virtual_entities(resp) ==
    IF resp.status # "200"
    THEN [exc |-> Some(GlowmarktApiError("Failed to get virtual entities")),
          value |-> << >>]
    ELSE [exc |-> None, value |-> IF resp.is_list THEN resp.items ELSE << >>]

\* The catalog (an insertion-ordered dict keyed by classifier) with
\* self._resources[classifier] = {...} applied.  Only the fields of a
\* catalog entry that are read again are kept: resource_id and classifier.
CatalogSet(cat, classifier, resource_id) ==
    LET entry == [classifier |-> classifier, resource_id |-> resource_id]
    IN  IF \E i \in 1..Len(cat) : cat[i].classifier = classifier
        THEN [i \in 1..Len(cat) |->
                 IF cat[i].classifier = classifier THEN entry ELSE cat[i]]
        ELSE Append(cat, entry)

RECURSIVE AddResources(_, _)
\* The inner loop of discover_resources over one entity's resources.
AddResources(cat, resources) ==
    IF resources = << >> THEN cat
    ELSE LET r == Head(resources)
         IN  AddResources(
                 IF ~IsNone(r.resourceId) /\ ~IsNone(r.classifier)
                 THEN CatalogSet(cat, Val(r.classifier), Val(r.resourceId))
                 ELSE cat,
                 Tail(resources))

\* An iteration that drops what was discovered when its request fails.
DiscoverEntityOrReset(cat, resp) ==
    IF resp.status # "200" THEN << >> ELSE AddResources(cat, resp.resources)

\* One iteration of the loop of discover_resources over an entity that has
\* a veId: a failed request is logged and the catalog is left as it is.
DiscoverEntity(cat, resp) ==
    IF resp.status # "200" THEN cat ELSE AddResources(cat, resp.resources)

RECURSIVE SkipNoId(_)
\* "if not ve_id: continue": the entities still to be asked for.
SkipNoId(entities) ==
    IF entities = << >> THEN << >>
    ELSE IF IsNone(Head(entities)) THEN SkipNoId(Tail(entities))
    ELSE entities

Classifiers(cat) == { cat[i].classifier : i \in 1..Len(cat) }

RECURSIVE SumUntilNull(_)
\* A sum that stops at the first null interval.
SumUntilNull(values) ==
    IF values = << >> \/ IsNone(Head(values)) THEN 0
    ELSE Val(Head(values)) + SumUntilNull(Tail(values))

RECURSIVE SumPresent(_)
\* sum(reading[1] for reading in readings if reading[1] is not None)
SumPresent(values) ==
    IF values = << >> THEN 0
    ELSE (IF IsNone(Head(values)) THEN 0 ELSE Val(Head(values)))
         + SumPresent(Tail(values))

\* round(total, 3): interval values carry one decimal more than a reading.
IntervalsPerReadingUnit == Pow10(ReadingDigits + 1) \div Pow10(ReadingDigits)

\* A get_daily_reading that answers 0.0 where it has no data.
get_daily_reading_zero(resp) ==
    IF resp.status = "200" /\ resp.api_status = "OK" /\ ~IsNone(resp.data)
       /\ Val(resp.data) # << >>
    THEN Some(RoundHalfEven(SumPresent(Val(resp.data)), IntervalsPerReadingUnit))
    ELSE Some(0)

\* get_daily_reading(), after its guard: the daily total or None.
get_daily_reading(resp) ==
    IF resp.status # "200" THEN None
    ELSE IF resp.api_status = "OK" /\ ~IsNone(resp.data) /\ Val(resp.data) # << >>
    THEN Some(RoundHalfEven(SumPresent(Val(resp.data)), IntervalsPerReadingUnit))
    ELSE None

(* -------------- coordinator.py: GlowmarktDataUpdateCoordinator -------- *)

EmptyDict == [k \in {} |-> 0]

\* dict.get(key, default) on a dict modelled as a function.
Get(d, k, default) == IF k \in DOMAIN d THEN d[k] ELSE default

\* A merge that keeps only the values this cycle fetched.
MergeCacheFreshOnly(cache, fetched) ==
    LET fresh == { k \in DOMAIN fetched : ~IsNone(fetched[k]) }
    IN  [k \in fresh |-> Val(fetched[k])]

\* The merge loop: self._last_readings after it.
MergeCache(cache, fetched) ==
    LET fresh == { k \in DOMAIN fetched : ~IsNone(fetched[k]) }
    IN  [k \in (DOMAIN cache) \cup fresh |->
            IF k \in fresh THEN Val(fetched[k]) ELSE cache[k]]

\* Merged readings that are the fetched ones, without the cache.
MergedReadingsFresh(cache, fetched) == fetched

\* merged_readings = {k: self._last_readings.get(k) for k in readings.keys()}
MergedReadings(cache, fetched) ==
    [k \in DOMAIN fetched |-> IF k \in DOMAIN cache THEN Some(cache[k]) ELSE None]

\* A cost that leaves the standing charge out.
ConsumptionCostNoStanding(consumption, rate, standing) ==
    RoundHalfEven(consumption * rate, Pow10(ReadingDigits + RateDigits - CostDigits))

\* round((consumption * rate) + standing, 2), in pence.
ConsumptionCost(consumption, rate, standing) ==
    RoundHalfEven(consumption * rate
                      + standing * Pow10(ReadingDigits + RateDigits - CostDigits),
                  Pow10(ReadingDigits + RateDigits - CostDigits))

\* Costs whose total counts electricity only.
CostsElectricityOnly(merged, tariff) ==
    LET elec == Get(merged, CLASSIFIER_ELECTRICITY_CONSUMPTION, None)
        gas == Get(merged, CLASSIFIER_GAS_CONSUMPTION, None)
        c1 == IF ~IsNone(elec)
              THEN [k \in { "electricity" } |->
                       ConsumptionCost(Val(elec), tariff.electricity_rate,
                                       tariff.electricity_standing_charge)]
              ELSE EmptyDict
        c2 == IF ~IsNone(gas)
              THEN [k \in { "gas" } |->
                       ConsumptionCost(Val(gas), tariff.gas_rate,
                                       tariff.gas_standing_charge)] @@ c1
              ELSE c1
        c3 == [k \in { "total" } |-> Get(c2, "electricity", 0)] @@ c2
    IN  [k \in { "standing_charges_total" } |->
            tariff.electricity_standing_charge + tariff.gas_standing_charge] @@ c3

\* data["costs"] as built from the merged readings and the tariff.  The sums
\* of "total" and "standing_charges_total" add amounts in pence, which
\* round(x, 2) leaves as they are.
Costs(merged, tariff) ==
    LET elec == Get(merged, CLASSIFIER_ELECTRICITY_CONSUMPTION, None)
        gas == Get(merged, CLASSIFIER_GAS_CONSUMPTION, None)
        c1 == IF ~IsNone(elec)
              THEN [k \in { "electricity" } |->
                       ConsumptionCost(Val(elec), tariff.electricity_rate,
                                       tariff.electricity_standing_charge)]
              ELSE EmptyDict
        c2 == IF ~IsNone(gas)
              THEN [k \in { "gas" } |->
                       ConsumptionCost(Val(gas), tariff.gas_rate,
                                       tariff.gas_standing_charge)] @@ c1
              ELSE c1
        c3 == [k \in { "total" } |->
                  Get(c2, "electricity", 0) + Get(c2, "gas", 0)] @@ c2
    IN  [k \in { "standing_charges_total" } |->
            tariff.electricity_standing_charge + tariff.gas_standing_charge] @@ c3

\* A snapshot whose gas cost is computed from the default gas tariff.
SnapshotMixedTariffs(cache, fetched, catalog, tariff) ==
    LET merged == MergedReadings(MergeCache(cache, fetched), fetched)
    IN  [readings |-> merged, resources |-> catalog,
         costs |-> Costs(merged, [tariff EXCEPT
                                     !.gas_rate = DEFAULT_GAS_RATE,
                                     !.gas_standing_charge = DEFAULT_GAS_STANDING_CHARGE])]

\* A snapshot costed with the tariff the coordinator was constructed with.
SnapshotDefaultTariff(cache, fetched, catalog, tariff) ==
    LET merged == MergedReadings(MergeCache(cache, fetched), fetched)
    IN  [readings |-> merged, resources |-> catalog,
         costs |-> Costs(merged, DefaultTariff)]

\* The dict _async_update_data returns.
Snapshot(cache, fetched, catalog, tariff) ==
    LET merged == MergedReadings(MergeCache(cache, fetched), fetched)
    IN  [readings |-> merged, resources |-> catalog,
         costs |-> Costs(merged, tariff)]

\* A clear that keeps the cache.
KeptCache(cache) == cache

\* self._last_readings.clear()
ClearedCache(cache) == EmptyDict


(* ------------------------------- state -------------------------------- *)

VARIABLES
    \* GlowmarktApiClient
    token,              \* self._token: None or the token
    token_expiry,       \* self._token_expiry: None or a day
    client_resources,   \* self._resources: the catalog
    \* GlowmarktDataUpdateCoordinator
    coord_resources,    \* self._resources
    last_readings,      \* self._last_readings
    tariff_config,      \* self.tariff_config
    data,               \* self.data: None, or the snapshot published last
    last_update,        \* how the last refresh ended, as the host sees it
    \* the environment
    now,                \* datetime.now(), in days
    \* the call in progress (one at a time: the client is not shared)
    op,                 \* the public operation being run, or "idle"
    pc,                 \* where it stands: the next request it sends
    ves,                \* discover_resources: the entities still to ask
    pending,            \* get_all_readings: the catalog entries still to fetch
    readings,           \* get_all_readings: its local dict
    result,             \* what the last finished client call returned or raised
    \* history
    sent,               \* the requests the last step sent, and for which call
    guard_auths,        \* authentications started by _ensure_authenticated that succeeded
    probe,              \* a readings response get_daily_reading is tried on
    h_found,            \* the discovery of the running (or last) test_connection or
                        \* discover_resources call found a resource
    h_seen,             \* classifiers a successful cycle has had a fresh value for
    h_cleared,          \* clear_daily_cache ran since the last published snapshot
    h_started_cleared,  \* h_cleared as it was when the running (or last) cycle began
    h_stale             \* the classifiers whose value the cycle in flight had
                        \* fetched when clear_daily_cache was called during it

clientVars == << token, token_expiry, client_resources >>

coordVars == << coord_resources, last_readings, tariff_config, data, last_update >>

taskVars == << op, pc, ves, pending, readings, result >>

histVars == << sent, guard_auths, probe, h_found, h_seen, h_cleared, h_started_cleared, h_stale >>

vars == << clientVars, coordVars, taskVars, histVars, now >>

NoResult == [status |-> "none", value |-> << >>]

NothingSent == [op |-> "idle", reqs |-> << >>]

\* A request as recorded in sent: its kind ("auth", "entities", "resources",
\* "readings"), whether the token was stored and unexpired when it was sent,
\* whether it failed (transport or HTTP status), the entity or resource asked
\* for, and what came of it: for a readings request the value
\* get_daily_reading made of the answer, for a resource-list request the
\* "resources" array received, for an /auth or entity-list request the
\* exception raised (None when there was none); and the HTTP status of the
\* answer ("transport" when there was no answer).
Request(kind, valid, failed, target, got, status) ==
    [kind |-> kind, valid |-> valid, failed |-> failed, target |-> target, got |-> got,
     status |-> status]

\* An /auth request as recorded in sent: as any request, with whether the
\* body of the answer marks the result valid.
AuthSent(valid, exc, resp) ==
    [body_valid |-> resp.valid] @@ Request("auth", valid, ~IsNone(exc), "", exc, resp.status)

\* The state after GlowmarktApiClient.__init__ and
\* GlowmarktDataUpdateCoordinator.__init__.
Init ==
    /\ token = None
    /\ token_expiry = None
    /\ client_resources = << >>
    /\ coord_resources = << >>
    /\ last_readings = EmptyDict
    /\ tariff_config = DefaultTariff
    /\ data = None
    /\ last_update = [status |-> "none", exc |-> None]
    /\ now = 0
    /\ op = "idle"
    /\ pc = "idle"
    /\ ves = << >>
    /\ pending = << >>
    /\ readings = EmptyDict
    /\ result = NoResult
    /\ sent = NothingSent
    /\ guard_auths = 0
    /\ probe = None
    /\ h_found = FALSE
    /\ h_seen = {}
    /\ h_cleared = FALSE
    /\ h_started_cleared = FALSE
    /\ h_stale = {}


(* ------------------- how a call ends or goes on ----------------------- *)
(* Each of these sets op, pc, ves, pending, readings, result,            *)
(* last_readings, data, last_update, h_seen and h_cleared.               *)

\* The running call returns value to its caller.
Return(value, rd) ==
    /\ op' = "idle"
    /\ pc' = "idle"
    /\ ves' = << >>
    /\ pending' = << >>
    /\ readings' = rd
    /\ result' = [status |-> "return", value |-> << value >>]
    /\ UNCHANGED << last_readings, data, last_update, h_seen, h_cleared >>

\* A failed update that also drops the published snapshot.
FailUpdateDropping(exc) ==
    /\ op' = "idle"
    /\ pc' = "idle"
    /\ ves' = << >>
    /\ pending' = << >>
    /\ last_update' =
           [status |-> "update_failed",
            exc |-> Some(UpdateFailed(IF exc.type = "GlowmarktAuthError"
                                      THEN "Authentication error"
                                      ELSE "API error", exc))]
    /\ data' = None
    /\ UNCHANGED << readings, result, last_readings, h_seen, h_cleared >>

\* _async_update_data: "except GlowmarktAuthError / except GlowmarktApiError".
\* The host keeps self.data and records the failed update.
FailUpdate(exc) ==
    /\ op' = "idle"
    /\ pc' = "idle"
    /\ ves' = << >>
    /\ pending' = << >>
    /\ last_update' =
           [status |-> "update_failed",
            exc |-> Some(UpdateFailed(IF exc.type = "GlowmarktAuthError"
                                      THEN "Authentication error"
                                      ELSE "API error", exc))]
    /\ UNCHANGED << readings, result, last_readings, data, h_seen, h_cleared >>

\* A client method raises exc: test_connection returns False, the
\* coordinator turns it into UpdateFailed, any other caller receives it.
Raise(exc) ==
    IF op = "test_connection" THEN Return(FALSE, readings)
    ELSE IF op = "refresh" THEN FailUpdate(exc)
    ELSE /\ op' = "idle"
         /\ pc' = "idle"
         /\ ves' = << >>
         /\ pending' = << >>
         /\ result' = [status |-> "raise", value |-> << exc >>]
         /\ UNCHANGED << readings, last_readings, data, last_update, h_seen, h_cleared >>

\* _async_update_data from the merge loop to "return data"; the host stores
\* the returned dict as self.data.
Publish(rd) ==
    /\ last_readings' = MergeCache(last_readings, rd)
    /\ data' = Some(Snapshot(last_readings, rd, coord_resources, tariff_config))
    /\ last_update' = [status |-> "published", exc |-> None]
    /\ h_seen' = h_seen \cup { k \in DOMAIN rd : ~IsNone(rd[k]) }
    /\ h_cleared' = FALSE
    /\ op' = "idle"
    /\ pc' = "idle"
    /\ ves' = << >>
    /\ pending' = << >>
    /\ readings' = rd
    /\ UNCHANGED result

\* get_all_readings returns rd.
ReadingsDone(rd) ==
    IF op = "refresh" THEN Publish(rd) ELSE Return(rd, rd)

\* discover_resources returns value, the client's catalog being cat.
AfterDiscovery(cat, value) ==
    IF op = "discover_resources" THEN Return(value, readings)
    ELSE IF op = "test_connection" THEN Return(Len(cat) > 0, readings)
    ELSE IF cat = << >> THEN ReadingsDone(EmptyDict)
    ELSE /\ pc' = "fetch"
         /\ pending' = cat
         /\ ves' = << >>
         /\ readings' = EmptyDict
         /\ UNCHANGED << op, result, last_readings, data, last_update, h_seen, h_cleared >>

\* What no step of a client call changes.
StepFrame == UNCHANGED << now, tariff_config, coord_resources, h_started_cleared >>

\* h_stale is about the cycle in flight: it is dropped by the step that ends
\* the call.  (Evaluated once the step has set op'.)
StaleAfterStep == h_stale' = IF op' = "idle" THEN {} ELSE h_stale

AuthRequest(g, resp) ==
    IF g.asked
    THEN << AuthSent(TokenValid(token, token_expiry, now), g.exc, resp) >>
    ELSE << >>

GuardAuths(g) == IF g.asked /\ IsNone(g.exc) THEN 1 ELSE 0

(* ------------------------------ steps --------------------------------- *)

\* discover_resources up to the loop: its guard, then get_virtual_entities
\* with its own guard and its request.
DiscoverHead(name, aresp, vresp) ==
    LET g1 == ensure_authenticated(token, token_expiry, now, aresp)
        g2 == IF IsNone(g1.exc)
              THEN ensure_authenticated(g1.token, g1.token_expiry, now, aresp)
              ELSE [asked |-> FALSE] @@ g1
        v == get_virtual_entities(vresp)
        todo == SkipNoId(v.value)
        proceeds == IsNone(g1.exc) /\ IsNone(g2.exc)
    IN  /\ token' = g2.token
        /\ token_expiry' = g2.token_expiry
        /\ guard_auths' = guard_auths + GuardAuths(g1) + GuardAuths(g2)
        /\ sent' =
              [op |-> name,
               reqs |-> AuthRequest(g1, aresp)
                        \o (IF g2.asked
                            THEN << AuthSent(TokenValid(g1.token, g1.token_expiry, now),
                                             g2.exc, aresp) >>
                            ELSE << >>)
                        \o (IF proceeds
                            THEN << Request("entities",
                                            TokenValid(g2.token, g2.token_expiry, now),
                                            ~IsNone(v.exc), "", v.exc, vresp.status) >>
                            ELSE << >>)]
        /\ UNCHANGED << probe, h_found >>
        /\ StepFrame
        /\ IF ~IsNone(g1.exc) THEN UNCHANGED client_resources /\ Raise(Val(g1.exc))
           ELSE IF ~IsNone(g2.exc) THEN UNCHANGED client_resources /\ Raise(Val(g2.exc))
           ELSE IF ~IsNone(v.exc) THEN UNCHANGED client_resources /\ Raise(Val(v.exc))
           ELSE IF v.value = << >>
           THEN UNCHANGED client_resources /\ AfterDiscovery(client_resources, << >>)
           ELSE /\ client_resources' = << >>
                /\ IF todo = << >> THEN AfterDiscovery(<< >>, << >>)
                   ELSE /\ pc' = "entity"
                        /\ ves' = todo
                        /\ UNCHANGED << op, pending, readings, result, last_readings,
                                        data, last_update, h_seen, h_cleared >>
        /\ StaleAfterStep

StepDiscover ==
    /\ pc = "discover"
    /\ \E aresp \in GuardResponses(token, token_expiry, now), vresp \in VeResponses :
           DiscoverHead(op, aresp, vresp)

\* One iteration of the loop of discover_resources: the request for the
\* resources of the next entity that has a veId.
StepEntity ==
    /\ pc = "entity"
    /\ \E resp \in ResourceResponses :
           LET cat == DiscoverEntity(client_resources, resp)
               rest == SkipNoId(Tail(ves))
           IN  /\ client_resources' = cat
               /\ sent' = [op |-> op,
                           reqs |-> << Request("resources",
                                               TokenValid(token, token_expiry, now),
                                               resp.status # "200", Val(Head(ves)),
                                               resp.resources, resp.status) >>]
               /\ h_found' = (/\ op \in { "test_connection", "discover_resources" }
                              /\ \/ h_found
                                 \/ \E i \in 1..Len(resp.resources) :
                                        /\ ~IsNone(resp.resources[i].resourceId)
                                        /\ ~IsNone(resp.resources[i].classifier))
               /\ UNCHANGED << token, token_expiry, guard_auths, probe >>
               /\ StepFrame
               /\ IF rest = << >> THEN AfterDiscovery(cat, cat)
                  ELSE /\ ves' = rest
                       /\ UNCHANGED << op, pc, pending, readings, result, last_readings,
                                       data, last_update, h_seen, h_cleared >>
               /\ StaleAfterStep

\* get_daily_reading(resource_id): its guard and its request.  The client's
\* state after it, the requests sent, and what it returns or raises.
DailyReadingCall(resource_id, aresp, rresp) ==
    LET g == ensure_authenticated(token, token_expiry, now, aresp)
        v == get_daily_reading(rresp)
    IN  [token |-> g.token,
         token_expiry |-> g.token_expiry,
         auths |-> GuardAuths(g),
         exc |-> g.exc,
         value |-> v,
         reqs |-> AuthRequest(g, aresp)
                  \o (IF IsNone(g.exc)
                      THEN << Request("readings", TokenValid(g.token, g.token_expiry, now),
                                      rresp.status # "200", resource_id, v,
                                      rresp.status) >>
                      ELSE << >>)]

\* An assignment that forgets the entries made before it.
SetReadingAlone(rd, classifier, value) == [k \in { classifier } |-> value]

\* readings[classifier] = await self.get_daily_reading(resource["resource_id"])
SetReading(rd, classifier, value) ==
    [k \in (DOMAIN rd) \cup { classifier } |-> IF k = classifier THEN value ELSE rd[k]]

\* One iteration of the loop of get_all_readings.
StepFetch ==
    /\ pc = "fetch"
    /\ \E aresp \in GuardResponses(token, token_expiry, now), rresp \in FetchResponses :
           LET entry == Head(pending)
               c == DailyReadingCall(entry.resource_id, aresp, rresp)
               rd == SetReading(readings, entry.classifier, c.value)
           IN  /\ token' = c.token
               /\ token_expiry' = c.token_expiry
               /\ guard_auths' = guard_auths + c.auths
               /\ sent' = [op |-> op, reqs |-> c.reqs]
               /\ UNCHANGED << client_resources, probe, h_found >>
               /\ StepFrame
               /\ IF ~IsNone(c.exc) THEN Raise(Val(c.exc))
                  ELSE IF Tail(pending) = << >> THEN ReadingsDone(rd)
                  ELSE /\ pending' = Tail(pending)
                       /\ readings' = rd
                       /\ UNCHANGED << op, pc, ves, result, last_readings, data,
                                       last_update, h_seen, h_cleared >>
               /\ StaleAfterStep


(* ----------------- the client's methods, called directly -------------- *)

\* What a direct call of a client method leaves alone.
CallFrame ==
    UNCHANGED << now, coordVars, h_seen, h_cleared, h_started_cleared, h_stale, op, pc, ves,
                 pending >>

\* await client.authenticate()
Authenticate ==
    /\ op = "idle"
    /\ \E aresp \in AuthResponses(now) :
           LET a == authenticate(token, token_expiry, now, aresp)
           IN  /\ token' = a.token
               /\ token_expiry' = a.token_expiry
               /\ sent' = [op |-> "authenticate",
                           reqs |-> << AuthSent(TokenValid(token, token_expiry, now),
                                                a.exc, aresp) >>]
               /\ result' = IF IsNone(a.exc)
                            THEN [status |-> "return", value |-> << TRUE >>]
                            ELSE [status |-> "raise", value |-> a.exc]
    /\ readings' = EmptyDict
    /\ UNCHANGED << client_resources, guard_auths, probe, h_found >>
    /\ CallFrame

\* await client.get_virtual_entities()
GetVirtualEntities ==
    /\ op = "idle"
    /\ \E aresp \in GuardResponses(token, token_expiry, now), vresp \in VeResponses :
           LET g == ensure_authenticated(token, token_expiry, now, aresp)
               v == get_virtual_entities(vresp)
           IN  /\ token' = g.token
               /\ token_expiry' = g.token_expiry
               /\ guard_auths' = guard_auths + GuardAuths(g)
               /\ sent' = [op |-> "get_virtual_entities",
                           reqs |-> AuthRequest(g, aresp)
                                    \o (IF IsNone(g.exc)
                                        THEN << Request("entities",
                                                        TokenValid(g.token, g.token_expiry, now),
                                                        ~IsNone(v.exc), "", v.exc, vresp.status) >>
                                        ELSE << >>)]
               /\ result' = IF ~IsNone(g.exc) THEN [status |-> "raise", value |-> g.exc]
                            ELSE IF ~IsNone(v.exc) THEN [status |-> "raise", value |-> v.exc]
                            ELSE [status |-> "return", value |-> << v.value >>]
    /\ readings' = EmptyDict
    /\ UNCHANGED << client_resources, probe, h_found >>
    /\ CallFrame

\* await client.get_daily_reading(resource_id)
GetDailyReading ==
    /\ op = "idle"
    /\ \E resource_id \in ResourceIds, aresp \in GuardResponses(token, token_expiry, now),
          rresp \in FetchResponses :
           LET c == DailyReadingCall(resource_id, aresp, rresp)
           IN  /\ token' = c.token
               /\ token_expiry' = c.token_expiry
               /\ guard_auths' = guard_auths + c.auths
               /\ sent' = [op |-> "get_daily_reading", reqs |-> c.reqs]
               /\ result' = IF ~IsNone(c.exc) THEN [status |-> "raise", value |-> c.exc]
                            ELSE [status |-> "return", value |-> << c.value >>]
    /\ readings' = EmptyDict
    /\ UNCHANGED << client_resources, probe, h_found >>
    /\ CallFrame

\* What the start of a call that takes several steps leaves alone.
StartFrame ==
    UNCHANGED << now, clientVars, coord_resources, last_readings, tariff_config, data,
                 guard_auths, probe, h_seen, h_cleared >>

\* await client.discover_resources()
StartDiscoverResources ==
    /\ op = "idle"
    /\ op' = "discover_resources"
    /\ pc' = "discover"
    /\ ves' = << >>
    /\ pending' = << >>
    /\ readings' = EmptyDict
    /\ result' = NoResult
    /\ sent' = NothingSent
    /\ h_found' = FALSE
    /\ UNCHANGED << last_update, h_started_cleared, h_stale >>
    /\ StartFrame

\* get_all_readings up to its loop: "if not self._resources".
GetAllReadingsHead(name) ==
    /\ op' = name
    /\ ves' = << >>
    /\ readings' = EmptyDict
    /\ result' = NoResult
    /\ sent' = NothingSent
    /\ IF client_resources = << >>
       THEN pc' = "discover" /\ pending' = << >>
       ELSE pc' = "fetch" /\ pending' = client_resources

\* await client.get_all_readings()
StartGetAllReadings ==
    /\ op = "idle"
    /\ GetAllReadingsHead("get_all_readings")
    /\ h_found' = FALSE
    /\ UNCHANGED << last_update, h_started_cleared, h_stale >>
    /\ StartFrame

\* await client.test_connection(): its authenticate(); discovery follows.
StartTestConnection ==
    /\ op = "idle"
    /\ \E aresp \in AuthResponses(now) :
           LET a == authenticate(token, token_expiry, now, aresp)
           IN  /\ token' = a.token
               /\ token_expiry' = a.token_expiry
               /\ sent' = [op |-> "test_connection",
                           reqs |-> << AuthSent(TokenValid(token, token_expiry, now),
                                                a.exc, aresp) >>]
               /\ IF IsNone(a.exc)
                  THEN op' = "test_connection" /\ pc' = "discover" /\ result' = NoResult
                  ELSE op' = "idle" /\ pc' = "idle"
                       /\ result' = [status |-> "return", value |-> << FALSE >>]
    /\ ves' = << >>
    /\ pending' = << >>
    /\ readings' = EmptyDict
    /\ h_found' = FALSE
    /\ UNCHANGED << now, client_resources, coordVars, guard_auths, probe, h_seen,
                    h_cleared, h_started_cleared, h_stale >>

(* ------------------------- the coordinator ---------------------------- *)

\* _async_update_data up to its first await.  With an empty catalog it calls
\* discover_resources(self._virtual_entity_id), which takes no such argument:
\* the call raises TypeError, which neither except clause catches.
StartRefresh ==
    /\ op = "idle"
    /\ h_started_cleared' = h_cleared
    /\ h_stale' = {}
    /\ IF coord_resources = << >>
       THEN /\ last_update' = [status |-> "error", exc |-> Some(TypeError)]
            /\ UNCHANGED << taskVars, sent, h_found >>
       ELSE /\ GetAllReadingsHead("refresh")
            /\ h_found' = FALSE
            /\ UNCHANGED last_update
    /\ StartFrame

\* coordinator.update_tariff_config(tariff_config)
UpdateTariffConfig ==
    /\ \E t \in Tariffs : tariff_config' = t
    /\ UNCHANGED << clientVars, coord_resources, last_readings, data, last_update,
                    taskVars, histVars, now >>

\* coordinator.clear_daily_cache()
ClearDailyCache ==
    /\ last_readings' = ClearedCache(last_readings)
    /\ h_cleared' = TRUE
    /\ h_stale' = IF op = "refresh"
                  THEN { k \in DOMAIN readings : ~IsNone(readings[k]) }
                  ELSE {}
    /\ UNCHANGED << clientVars, coord_resources, tariff_config, data, last_update,
                    taskVars, sent, guard_auths, probe, h_found, h_seen, h_started_cleared,
                    now >>

\* Time passes.
Tick ==
    /\ \E d \in TickDays : now + d <= MaxTime /\ now' = now + d
    /\ UNCHANGED << clientVars, coordVars, taskVars, histVars >>

(* --------------------------- specifications --------------------------- *)

\* The client and the coordinator as constructed: every public method of
\* the client, and the coordinator's refresh.
Next ==
    \/ Authenticate
    \/ GetVirtualEntities
    \/ GetDailyReading
    \/ StartDiscoverResources
    \/ StartGetAllReadings
    \/ StartTestConnection
    \/ StepDiscover
    \/ StepEntity
    \/ StepFetch
    \/ StartRefresh
    \/ Tick

Spec == Init /\ [][Next]_vars

\* The event loop runs a call in progress on: each await of a call returns
\* (aiohttp answers or fails), so the pending step of a call is taken.
SpecFair == Spec /\ WF_vars(StepDiscover \/ StepEntity \/ StepFetch)

\* Catalogs for the coordinator's own self._resources.
SeededCatalogs ==
    { << [classifier |-> CLASSIFIER_ELECTRICITY_CONSUMPTION, resource_id |-> "r1"],
         [classifier |-> CLASSIFIER_GAS_CONSUMPTION, resource_id |-> "r2"] >> }

\* The constructed state, but for the coordinator's catalog, which holds
\* what the discovery of _async_update_data is there to store in it.
InitDiscovered ==
    /\ token = None
    /\ token_expiry = None
    /\ client_resources = << >>
    /\ coord_resources \in SeededCatalogs
    /\ last_readings = EmptyDict
    /\ tariff_config = DefaultTariff
    /\ data = None
    /\ last_update = [status |-> "none", exc |-> None]
    /\ now = 0
    /\ op = "idle"
    /\ pc = "idle"
    /\ ves = << >>
    /\ pending = << >>
    /\ readings = EmptyDict
    /\ result = NoResult
    /\ sent = NothingSent
    /\ guard_auths = 0
    /\ probe = None
    /\ h_found = FALSE
    /\ h_seen = {}
    /\ h_cleared = FALSE
    /\ h_started_cleared = FALSE
    /\ h_stale = {}

\* The operations the host scheduler has: refresh, update_tariff_config,
\* clear_daily_cache; the client is the coordinator's own.
NextDiscovered ==
    \/ StartRefresh
    \/ StepDiscover
    \/ StepEntity
    \/ StepFetch
    \/ UpdateTariffConfig
    \/ ClearDailyCache
    \/ Tick

SpecDiscovered == InitDiscovered /\ [][NextDiscovered]_vars


\* get_daily_reading on a response, on its own: what it makes of every
\* response with a "data" array of up to MaxIntervals intervals.
InitReading ==
    /\ probe \in { Some(r) : r \in ReadingResponses(IntervalValues, MaxIntervals) }
    /\ h_found = FALSE
    /\ token = Some(0)
    /\ token_expiry = Some(TokenLifetime)
    /\ client_resources = << >>
    /\ coord_resources = << >>
    /\ last_readings = EmptyDict
    /\ tariff_config = DefaultTariff
    /\ data = None
    /\ last_update = [status |-> "none", exc |-> None]
    /\ now = 0
    /\ op = "idle"
    /\ pc = "idle"
    /\ ves = << >>
    /\ pending = << >>
    /\ readings = EmptyDict
    /\ result = NoResult
    /\ sent = NothingSent
    /\ guard_auths = 0
    /\ h_seen = {}
    /\ h_cleared = FALSE
    /\ h_started_cleared = FALSE
    /\ h_stale = {}

\* await client.get_daily_reading(resource_id), the response being probe.
ReadDaily ==
    /\ op = "idle"
    /\ result = NoResult
    /\ ~IsNone(probe)
    /\ \E resource_id \in ResourceIds :
           LET c == DailyReadingCall(resource_id, [status |-> "200", valid |-> TRUE, token |-> now],
                                     Val(probe))
           IN  /\ token' = c.token
               /\ token_expiry' = c.token_expiry
               /\ guard_auths' = guard_auths + c.auths
               /\ sent' = [op |-> "get_daily_reading", reqs |-> c.reqs]
               /\ result' = IF ~IsNone(c.exc) THEN [status |-> "raise", value |-> c.exc]
                            ELSE [status |-> "return", value |-> << c.value >>]
    /\ readings' = EmptyDict
    /\ UNCHANGED << client_resources, probe, h_found >>
    /\ CallFrame

SpecReading == InitReading /\ [][ReadDaily]_vars


(* ------------------------------ properties ---------------------------- *)

\* The step of a refresh cycle that publishes its snapshot.
PublishStep ==
    op = "refresh" /\ op' = "idle" /\ last_update'.status = "published"

\* A step taken by the refresh cycle itself (not by a call that interleaves).
CycleStep ==
    op = "refresh" /\ << op, pc, ves, pending >>' # << op, pc, ves, pending >>

\* The reading a snapshot reports for classifier c.
Reported(snapshot, c) == Val(snapshot).readings[c]

\* C1.  Fallback invariant.  When a cycle publishes and its fetch for a
\* classifier yielded no value: if the snapshot published before reports a
\* value for the classifier and clear_daily_cache has not run since, the new
\* snapshot reports that same value; if no successful cycle ever had a value
\* for the classifier, the new snapshot reports null.
C1_FallbackInvariant ==
    [][PublishStep =>
          \A c \in DOMAIN readings' :
              IsNone(readings'[c]) =>
                  /\ (/\ ~IsNone(data)
                      /\ ~h_cleared
                      /\ c \in DOMAIN Val(data).readings
                      /\ ~IsNone(Reported(data, c)))
                         => Reported(data', c) = Reported(data, c)
                  /\ c \notin h_seen => IsNone(Reported(data', c))]_vars

\* A published snapshot that reports a value for a classifier whose fetch in
\* that cycle yielded none.
C1_Witness ==
    /\ op = "idle"
    /\ last_update.status = "published"
    /\ \E c \in DOMAIN readings :
           IsNone(readings[c]) /\ ~IsNone(Reported(data, c))

\* C2.  A cycle that starts after clear_daily_cache (no snapshot having been
\* published between the clear and the start) publishes null for every
\* classifier whose fetch yielded no value, also for one that had a value
\* cached before the clear.
C2_ClearThenGapIsNull ==
    (op = "idle" /\ last_update.status = "published" /\ h_started_cleared)
        => \A c \in DOMAIN readings :
               IsNone(readings[c]) => IsNone(Reported(data, c))

\* Such a cycle, for a classifier that an earlier cycle had a value for.
C2_Witness ==
    /\ op = "idle"
    /\ last_update.status = "published"
    /\ h_started_cleared
    /\ \E c \in h_seen \cap DOMAIN readings :
           IsNone(readings[c]) /\ IsNone(Reported(data, c))

\* The client calls that go through _ensure_authenticated.
GuardedCalls ==
    { "get_virtual_entities", "discover_resources", "get_daily_reading",
      "get_all_readings" }

\* C3.  Token reuse.  In every step of a guarded client call: no /auth
\* request is sent while the stored token is within its expiry window; an
\* /auth request, if any, is the only one and comes first; the entity-list or
\* readings request that follows is sent with a stored, unexpired token.  The
\* guards have authenticated at most once per expiry window.
C3_TokenReuse ==
    /\ sent.op \in GuardedCalls =>
          /\ sent.reqs # << >>
          /\ \A i \in 1..Len(sent.reqs) :
                 /\ sent.reqs[i].kind = "auth" => (i = 1 /\ ~sent.reqs[i].valid)
                 /\ sent.reqs[i].kind \in { "entities", "readings" } => sent.reqs[i].valid
                 /\ (i > 1 /\ sent.reqs[1].kind = "auth") => ~sent.reqs[1].failed
    /\ guard_auths <= 1 + now \div (TokenLifetime + 1)

\* A call made after the first token expired: one re-authentication, then
\* the data request.
C3_Witness ==
    /\ sent.op \in GuardedCalls
    /\ guard_auths = 2
    /\ Len(sent.reqs) = 2
    /\ sent.reqs[1].kind = "auth"
    /\ sent.reqs[2].kind \in { "entities", "readings" }
    /\ sent.reqs[2].valid

\* The interval values of a data array that are not null, in order.
PresentValues(values) == SelectSeq(values, LAMBDA v : ~IsNone(v))

RECURSIVE SumOfFirst(_, _)
\* The sum of the first n of a sequence of present values.
SumOfFirst(present, n) ==
    IF n = 0 THEN 0 ELSE SumOfFirst(present, n - 1) + Val(present[n])

\* The response probe is status "OK" with a non-null value in its data array.
ProbeHasValue ==
    /\ ~IsNone(probe)
    /\ Val(probe).status = "200"
    /\ Val(probe).api_status = "OK"
    /\ ~IsNone(Val(probe).data)
    /\ PresentValues(Val(Val(probe).data)) # << >>

\* C4.  For a status-"OK" response whose data array has a non-null value,
\* get_daily_reading returns the sum of the non-null values rounded to 3
\* decimals: the multiple of 0.001 nearest to the sum (interval values are in
\* units of 0.0001, the result in units of 0.001).
C4_DailyTotalIsSumOfPresent ==
    (result.status = "return" /\ ProbeHasValue) =>
        LET present == PresentValues(Val(Val(probe).data))
            total == SumOfFirst(present, Len(present))
            returned == result.value[1]
        IN  /\ ~IsNone(returned)
            /\ 2 * (10 * Val(returned) - total) <= 10
            /\ 2 * (total - 10 * Val(returned)) <= 10

\* A total returned for a data array with a null after a value and a value
\* after a null.
C4_Witness ==
    /\ result.status = "return"
    /\ ProbeHasValue
    /\ LET a == Val(Val(probe).data)
       IN  \E i, j, k \in 1..Len(a) :
               i < j /\ j < k /\ a[i] = Some(12346) /\ IsNone(a[j]) /\ a[k] = Some(4)
    /\ result.value[1] = Some(1235)

\* C5.  For a response whose status is not "OK", or whose data array is
\* empty or missing, get_daily_reading returns None; for a status-"OK"
\* response whose intervals are all present and zero it returns 0.0.
C5_NoValueIsNotZero ==
    (result.status = "return" /\ ~IsNone(probe)) =>
        LET resp == Val(probe)
        IN  /\ (\/ resp.api_status # "OK"
                \/ IsNone(resp.data)
                \/ Val(resp.data) = << >>)
                   => result.value[1] = None
            /\ (/\ resp.status = "200"
                /\ resp.api_status = "OK"
                /\ ~IsNone(resp.data)
                /\ Val(resp.data) # << >>
                /\ \A i \in 1..Len(Val(resp.data)) : Val(resp.data)[i] = Some(0))
                   => (result.value[1] = Some(0) /\ result.value[1] # None)

\* None returned for a body that has data but whose status is not "OK".
C5_Witness ==
    /\ result.status = "return"
    /\ ~IsNone(probe)
    /\ Val(probe).status = "200"
    /\ Val(probe).api_status # "OK"
    /\ ~IsNone(Val(probe).data)
    /\ result.value[1] = None

\* C6.  Every published snapshot has the cost fields "total" and
\* "standing_charges_total", and its total is the sum of its electricity and
\* gas cost fields, an absent field counting as 0 (costs are whole pence, so
\* rounding the sum to 2 decimals leaves it as it is).
C6_TotalIsSumOfCosts ==
    ~IsNone(data) =>
        LET costs == Val(data).costs
        IN  /\ { "total", "standing_charges_total" } \subseteq DOMAIN costs
            /\ costs["total"] =
                   (IF "electricity" \in DOMAIN costs THEN costs["electricity"] ELSE 0)
                   + (IF "gas" \in DOMAIN costs THEN costs["gas"] ELSE 0)

\* A snapshot with a gas cost and no electricity cost.
C6_Witness ==
    /\ ~IsNone(data)
    /\ "gas" \in DOMAIN Val(data).costs
    /\ "electricity" \notin DOMAIN Val(data).costs
    /\ Val(data).costs["total"] > 0

\* round(reading * rate + standing, 2) in pence: reading in 0.001 kWh, rate
\* in 0.001 GBP per kWh, standing in pence.
ExpectedCost(reading, rate, standing) ==
    LET micro == reading * rate + standing * 10000
        pence == CHOOSE p \in 0..(micro \div 10000 + 1) :
                     2 * (10000 * p - micro) <= 10000 /\ 2 * (micro - 10000 * p) < 10000
    IN  pence

\* C7.  In the snapshot a cycle publishes, the electricity cost is present
\* exactly when the reading reported for "electricity.consumption" is not
\* null, and is then round(reading * electricity_rate +
\* electricity_standing_charge, 2) with the tariff in force; likewise the gas
\* cost; standing_charges_total is the sum of the two standing charges
\* whatever the readings.
C7_CostsFollowReadings ==
    [][PublishStep =>
          LET snapshot == Val(data')
              known(c) == c \in DOMAIN snapshot.readings /\ ~IsNone(snapshot.readings[c])
          IN  /\ "electricity" \in DOMAIN snapshot.costs
                     <=> known(CLASSIFIER_ELECTRICITY_CONSUMPTION)
              /\ known(CLASSIFIER_ELECTRICITY_CONSUMPTION) =>
                     snapshot.costs["electricity"] =
                         ExpectedCost(Val(snapshot.readings[CLASSIFIER_ELECTRICITY_CONSUMPTION]),
                                      tariff_config.electricity_rate,
                                      tariff_config.electricity_standing_charge)
              /\ "gas" \in DOMAIN snapshot.costs <=> known(CLASSIFIER_GAS_CONSUMPTION)
              /\ known(CLASSIFIER_GAS_CONSUMPTION) =>
                     snapshot.costs["gas"] =
                         ExpectedCost(Val(snapshot.readings[CLASSIFIER_GAS_CONSUMPTION]),
                                      tariff_config.gas_rate,
                                      tariff_config.gas_standing_charge)
              /\ snapshot.costs["standing_charges_total"] =
                     tariff_config.electricity_standing_charge
                     + tariff_config.gas_standing_charge]_vars

\* A snapshot whose electricity reading comes from the cache and is costed,
\* and whose gas reading is unknown and is not.
C7_Witness ==
    /\ op = "idle"
    /\ last_update.status = "published"
    /\ CLASSIFIER_ELECTRICITY_CONSUMPTION \in DOMAIN readings
    /\ IsNone(readings[CLASSIFIER_ELECTRICITY_CONSUMPTION])
    /\ "electricity" \in DOMAIN Val(data).costs
    /\ Val(data).costs["electricity"] > Val(data).costs["standing_charges_total"]
    /\ "gas" \notin DOMAIN Val(data).costs

\* The requests of a step that raised an authentication or API error: a
\* failed /auth or a failed entity-list request.
RaisedIn(reqs) ==
    { i \in 1..Len(reqs) : reqs[i].kind \in { "auth", "entities" } /\ reqs[i].failed }

\* C8.  No step of a refresh cycle but the publishing one changes the
\* published snapshot or the last-known-good cache; a step in which an
\* authentication or API error is raised ends the cycle with UpdateFailed
\* carrying the kind of error and the error's message.
C8_FailedCycleKeepsSnapshot ==
    [][CycleStep =>
          /\ ~PublishStep => (data' = data /\ last_readings' = last_readings)
          /\ RaisedIn(sent'.reqs) # {} =>
                 LET err == Val(sent'.reqs[CHOOSE i \in RaisedIn(sent'.reqs) : TRUE].got)
                 IN  /\ op' = "idle"
                     /\ last_update'.status = "update_failed"
                     /\ Val(last_update'.exc).type = "UpdateFailed"
                     /\ Val(last_update'.exc).msg =
                            << IF err.type = "GlowmarktAuthError"
                               THEN "Authentication error" ELSE "API error",
                               err.msg >>
                     /\ data' = data
                     /\ last_readings' = last_readings]_vars

\* A cycle that failed after a snapshot was published and values were cached.
C8_Witness ==
    /\ op = "idle"
    /\ sent.op = "refresh"
    /\ last_update.status = "update_failed"
    /\ RaisedIn(sent.reqs) # {}
    /\ ~IsNone(data)
    /\ DOMAIN last_readings # {}

\* C9.  In get_all_readings, a step whose readings request was sent (the
\* guard found or obtained a token) never raises, whether or not the request
\* failed: the entry of the resource asked for is what get_daily_reading made
\* of the answer, None when the request failed; the entries made before are
\* kept; and the mapping returned has an entry for every classifier of the
\* catalog.
C9_ReadingFailureIsLocal ==
    [][(/\ op = "get_all_readings"
        /\ pc = "fetch"
        /\ << op, pending >>' # << op, pending >>
        /\ sent'.reqs[Len(sent'.reqs)].kind = "readings") =>
          LET entry == Head(pending)
              request == sent'.reqs[Len(sent'.reqs)]
          IN  /\ result'.status # "raise"
              /\ request.target = entry.resource_id
              /\ DOMAIN readings' = DOMAIN readings \cup { entry.classifier }
              /\ request.failed => IsNone(readings'[entry.classifier])
              /\ readings'[entry.classifier] = request.got
              /\ \A k \in DOMAIN readings \ { entry.classifier } :
                     readings'[k] = readings[k]
              /\ IF Tail(pending) = << >>
                 THEN /\ op' = "idle"
                      /\ result' = [status |-> "return", value |-> << readings' >>]
                      /\ DOMAIN readings' = Classifiers(client_resources)
                 ELSE /\ op' = op
                      /\ pending' = Tail(pending)]_vars

\* get_all_readings returned a value for the first resource of the catalog
\* and None for the second, whose request failed.
C9_Witness ==
    /\ sent.op = "get_all_readings"
    /\ result.status = "return"
    /\ Len(client_resources) = 2
    /\ sent.reqs[Len(sent.reqs)].kind = "readings"
    /\ sent.reqs[Len(sent.reqs)].failed
    /\ ~IsNone(result.value[1][client_resources[1].classifier])
    /\ IsNone(result.value[1][client_resources[2].classifier])

\* The descriptors of a "resources" array that have an id and a classifier.
Complete(resources) ==
    SelectSeq(resources, LAMBDA d : ~IsNone(d.resourceId) /\ ~IsNone(d.classifier))

\* C10.  In the loop of discover_resources, no resource-list request raises.
\* A failed one leaves the catalog as it is and the loop goes on with the
\* next entity.  A successful one enters each of its resources under its
\* classifier (the last of them, when two share a classifier) and keeps the
\* entries of every other classifier.  What the call returns is the catalog.
C10_EntityFailureIsSkipped ==
    [][(pc = "entity" /\ << pc, ves >>' # << pc, ves >>) =>
          LET request == sent'.reqs[1]
              found == Complete(request.got)
              before == client_resources
              after == client_resources'
          IN  /\ result'.status # "raise"
              /\ request.failed => after = before
              /\ \A j \in 1..Len(found) :
                     \E k \in 1..Len(after) :
                         /\ after[k].classifier = Val(found[j].classifier)
                         /\ (\A l \in (j + 1)..Len(found) :
                                 found[l].classifier # found[j].classifier)
                                => after[k].resource_id = Val(found[j].resourceId)
              /\ \A i \in 1..Len(before) :
                     (\A j \in 1..Len(found) :
                          Val(found[j].classifier) # before[i].classifier)
                         => \E k \in 1..Len(after) : after[k] = before[i]
              /\ IF SkipNoId(Tail(ves)) = << >>
                 THEN /\ pc' # "entity"
                      /\ op = "discover_resources" =>
                             (/\ op' = "idle"
                              /\ result' = [status |-> "return", value |-> << after >>])
                 ELSE /\ pc' = "entity"
                      /\ ves' = SkipNoId(Tail(ves))]_vars

\* discover_resources returned the resources of its first entity, the
\* request for its second entity having failed.
C10_Witness ==
    /\ sent.op = "discover_resources"
    /\ result.status = "return"
    /\ Len(sent.reqs) = 1
    /\ sent.reqs[1].kind = "resources"
    /\ sent.reqs[1].failed
    /\ sent.reqs[1].target = "ve2"
    /\ result.value[1] # << >>
    /\ result.value[1] = client_resources


\* The step sent an /auth request first (authenticate called directly, by
\* test_connection or by a guard).
AuthStep ==
    sent' # sent /\ sent'.reqs # << >> /\ sent'.reqs[1].kind = "auth"

\* C11.  authenticate() outcomes.  HTTP 401 raises GlowmarktAuthError; an
\* HTTP 200 answer whose body does not mark the result valid raises
\* GlowmarktAuthError; a transport failure raises GlowmarktApiError; a valid
\* answer raises nothing, stores a token and sets the expiry to now + 6 days;
\* any other answer leaves token and expiry as they were.  A direct call
\* returns True in the one case and raises the exception in the others.
C11_AuthenticateOutcomes ==
    [][AuthStep =>
          LET r == sent'.reqs[1]
              accepted == r.status = "200" /\ r.body_valid
          IN  /\ r.status = "401" =>
                     (~IsNone(r.got) /\ Val(r.got).type = "GlowmarktAuthError")
              /\ (r.status = "200" /\ ~r.body_valid) =>
                     (~IsNone(r.got) /\ Val(r.got).type = "GlowmarktAuthError")
              /\ r.status = "transport" =>
                     (~IsNone(r.got) /\ Val(r.got).type = "GlowmarktApiError")
              /\ accepted =>
                     /\ IsNone(r.got)
                     /\ ~IsNone(token')
                     /\ token_expiry' = Some(now + TokenLifetime)
              /\ ~accepted =>
                     /\ ~IsNone(r.got)
                     /\ token' = token
                     /\ token_expiry' = token_expiry
              /\ sent'.op = "authenticate" =>
                     result' = IF accepted
                               THEN [status |-> "return", value |-> << TRUE >>]
                               ELSE [status |-> "raise", value |-> r.got]]_vars

\* authenticate() called on a later day than the token it replaces was
\* issued: the new expiry is that day + 6.
C11_Witness ==
    /\ sent.op = "authenticate"
    /\ sent.reqs[1].status = "200"
    /\ sent.reqs[1].body_valid
    /\ result = [status |-> "return", value |-> << TRUE >>]
    /\ now > 0
    /\ token = Some(now)
    /\ token_expiry = Some(now + TokenLifetime)

\* C12.  Every HTTP error status other than 401 that a client method reports
\* to its caller is reported as GlowmarktApiError, also by authenticate().
C12_HttpErrorIsApiError ==
    (result.status = "raise" /\ sent.reqs # << >>) =>
        LET r == sent.reqs[Len(sent.reqs)]
        IN  r.status \notin { "200", "401", "transport" } =>
                result.value[1].type = "GlowmarktApiError"


\* C13.  test_connection() never raises, and it returns True exactly when
\* the discovery this call performed found a resource.
C13_TestConnectionReportsThisDiscovery ==
    sent.op = "test_connection" =>
        /\ result.status # "raise"
        /\ result.status = "return" => result.value[1] = h_found

\* C14.  After any discover_resources call that returns normally the
\* client's catalog is the value returned, so nothing of an earlier discovery
\* survives, an empty entity list included.
C14_CatalogReplacedWholesale ==
    (sent.op = "discover_resources" /\ result.status = "return") =>
        /\ client_resources = result.value[1]
        /\ (~h_found => client_resources = << >>)

\* C15.  discover_resources called with a selected entity, as a refresh
\* cycle whose catalog is empty calls it, completes: the call is accepted
\* and no cycle ends on the TypeError of a rejected argument.
C15_SelectorCallCompletes ==
    last_update.exc # Some(TypeError)

\* The step that starts a refresh cycle whose catalog is empty.
StartsEmptyCycle ==
    /\ op = "idle"
    /\ coord_resources = << >>
    /\ op' = "refresh" \/ last_update' # last_update

\* C16.  Discovery runs only while the catalog is empty, and once in a cycle:
\* a cycle that starts with an empty catalog goes on to send the discovery
\* requests, and a cycle whose catalog is non-empty sends none.
C16_DiscoveryOnceWhileEmpty ==
    /\ [][StartsEmptyCycle => (op' = "refresh" /\ pc' = "discover")]_vars
    /\ []((op = "refresh" /\ pc \in { "discover", "entity" }) => coord_resources = << >>)

\* C17.  No authenticated request (entity list, resource list of an entity,
\* readings) is sent without a stored token or with one whose expiry has
\* passed.
C17_RequestsCarryValidToken ==
    \A i \in 1..Len(sent.reqs) :
        sent.reqs[i].kind \in { "entities", "resources", "readings" } => sent.reqs[i].valid

\* The costs of snapshot are those of its own readings under tariff t.
CostedUnder(snapshot, t) ==
    LET known(c) == c \in DOMAIN snapshot.readings /\ ~IsNone(snapshot.readings[c])
        costs == snapshot.costs
    IN  /\ { "total", "standing_charges_total" } \subseteq DOMAIN costs
        /\ "electricity" \in DOMAIN costs <=> known(CLASSIFIER_ELECTRICITY_CONSUMPTION)
        /\ known(CLASSIFIER_ELECTRICITY_CONSUMPTION) =>
               costs["electricity"] =
                   ExpectedCost(Val(snapshot.readings[CLASSIFIER_ELECTRICITY_CONSUMPTION]),
                                t.electricity_rate, t.electricity_standing_charge)
        /\ "gas" \in DOMAIN costs <=> known(CLASSIFIER_GAS_CONSUMPTION)
        /\ known(CLASSIFIER_GAS_CONSUMPTION) =>
               costs["gas"] =
                   ExpectedCost(Val(snapshot.readings[CLASSIFIER_GAS_CONSUMPTION]),
                                t.gas_rate, t.gas_standing_charge)
        /\ costs["standing_charges_total"] =
               t.electricity_standing_charge + t.gas_standing_charge

\* C18.  The snapshot is published atomically.  Whatever interleaves with a
\* cycle (update_tariff_config, clear_daily_cache, the passing of time), the
\* snapshot a consumer reads has the three fields readings, resources and
\* costs, its costs are those of its own readings under one single tariff
\* configuration, and it changes only in the step that publishes, which
\* replaces it whole.
C18_SnapshotPublishedWhole ==
    /\ [](~IsNone(data) =>
             /\ DOMAIN Val(data) = { "readings", "resources", "costs" }
             /\ Val(data).resources = coord_resources
             /\ \E t \in Tariffs : CostedUnder(Val(data), t))
    /\ [][data' # data => PublishStep]_vars

\* A consumer reading during a cycle: the previous snapshot, with both costs,
\* is still there whole while the next cycle fetches, although the cache was
\* cleared and the tariff swapped since it was published.
C18_Witness ==
    /\ ~IsNone(data)
    /\ op = "refresh"
    /\ pc = "fetch"
    /\ h_cleared
    /\ { "electricity", "gas" } \subseteq DOMAIN Val(data).costs
    /\ ~CostedUnder(Val(data), tariff_config)

\* C19.  update_tariff_config takes effect without a restart and touches
\* nothing else: the step that swaps the tariff leaves the last-known-good
\* cache, both catalogs, the token and the published snapshot as they were,
\* and the snapshot a cycle publishes is costed entirely with the tariff in
\* force when it publishes.
C19_TariffSwapTakesEffect ==
    /\ [][tariff_config' # tariff_config =>
              UNCHANGED << last_readings, coord_resources, client_resources, token,
                           token_expiry, data >>]_vars
    /\ [][PublishStep => CostedUnder(Val(data'), tariff_config')]_vars

\* A snapshot published after a swap: its electricity and gas costs are those
\* of the swapped tariff and not those of the default one.
C19_Witness ==
    /\ op = "idle"
    /\ last_update.status = "published"
    /\ tariff_config # DefaultTariff
    /\ { "electricity", "gas" } \subseteq DOMAIN Val(data).costs
    /\ CostedUnder(Val(data), tariff_config)
    /\ ~CostedUnder(Val(data), DefaultTariff)
    /\ last_readings # EmptyDict

\* C20.  A refresh cycle ends in one of two ways only: published, with a
\* snapshot, or failed, with the typed UpdateFailed signal; no cycle ends
\* with an error that is neither.
C20_CycleEndsPublishedOrFailed ==
    /\ last_update.status \in { "none", "published", "update_failed" }
    /\ last_update.status = "published" => (~IsNone(data) /\ IsNone(last_update.exc))
    /\ last_update.status = "update_failed" => Val(last_update.exc).type = "UpdateFailed"

\* The step in which a refresh cycle ends: the last step of a cycle under
\* way, or a cycle that starts and ends before its first request.
CycleEnds ==
    \/ op = "refresh" /\ op' = "idle"
    \/ op = "idle" /\ op' = "idle" /\ last_update' # last_update

\* Every request in reqs was answered successfully.
Answered(reqs) == \A i \in 1..Len(reqs) : ~reqs[i].failed

\* C21.  Self-healing.  Whatever failed before, a refresh cycle comes to an
\* end, and a cycle that ends on requests the service answered successfully
\* (its credentials accepted) ends Published, with a reading entry for every
\* classifier of the catalog.
C21_HealthyCycleEndsPublished ==
    /\ (op = "refresh") ~> (op = "idle")
    /\ [][(CycleEnds /\ (op = "refresh" => Answered(sent'.reqs))) =>
              /\ last_update'.status = "published"
              /\ DOMAIN Val(data').readings = Classifiers(client_resources')]_vars

\* C22.  A value fetched before clear_daily_cache() returned is not written
\* into the last-known-good cache afterwards, and no snapshot published
\* after the clear reports it, also when the clear falls between the awaits
\* of a cycle in flight.
C22_NoLeakAcrossClear ==
    [][PublishStep =>
          \A k \in h_stale :
              /\ k \notin DOMAIN last_readings'
              /\ k \in DOMAIN Val(data').readings => IsNone(Val(data').readings[k])]_vars

\* C23.  get_daily_reading returns the number 0.0 only for a response with
\* at least one interval value present: a status-"OK" response whose data
\* array is non-empty with every value null yields None.
C23_ZeroNeedsPresentValue ==
    (result.status = "return" /\ ~IsNone(probe)) =>
        /\ result.value[1] = Some(0) => ProbeHasValue
        /\ (/\ Val(probe).status = "200"
            /\ Val(probe).api_status = "OK"
            /\ ~IsNone(Val(probe).data)
            /\ Val(Val(probe).data) # << >>
            /\ PresentValues(Val(Val(probe).data)) = << >>)
               => result.value[1] = None

\* The last request recorded is an /auth request that failed.
AuthFailed(reqs) ==
    reqs # << >> /\ reqs[Len(reqs)].kind = "auth" /\ reqs[Len(reqs)].failed

\* An /auth request among reqs was answered with a valid token.
AuthAccepted(reqs) ==
    \E i \in 1..Len(reqs) :
        reqs[i].kind = "auth" /\ reqs[i].status = "200" /\ reqs[i].body_valid

\* C25.  Credential state.  A token is stored exactly when an expiry is
\* stored; the two change only in a step whose /auth request was accepted,
\* and then together; a step whose authenticate() failed leaves the token,
\* the expiry and the client's catalog as they were.
C25_CredentialState ==
    /\ [](IsNone(token) <=> IsNone(token_expiry))
    /\ [][<< token, token_expiry >>' # << token, token_expiry >> =>
              /\ AuthAccepted(sent'.reqs)
              /\ token' = Some(now)
              /\ token_expiry' = Some(now + TokenLifetime)]_vars
    /\ [][AuthFailed(sent'.reqs) =>
              UNCHANGED << token, token_expiry, client_resources >>]_vars

\* A failed authenticate() on a client that holds a token and a catalog:
\* both are still there.
C25_Witness ==
    /\ sent.op = "authenticate"
    /\ AuthFailed(sent.reqs)
    /\ result.status = "raise"
    /\ ~IsNone(token)
    /\ ~IsNone(token_expiry)
    /\ now > Val(token_expiry)
    /\ client_resources # << >>

\* C24.  Cache invariant.  The last-known-good cache holds numbers only,
\* never null, and only for classifiers a successful cycle had a value for.
\* The merge step of a successful cycle sets the entry of each classifier it
\* fetched a value for to that value and leaves every other entry as it
\* was; clear_daily_cache empties the cache; nothing else changes it.  So
\* the entry of a classifier is the value of the most recent successful
\* cycle since the last clear that had one, and there is none otherwise.
C24_CacheInvariant ==
    /\ [](/\ DOMAIN last_readings \subseteq h_seen
          /\ \A k \in DOMAIN last_readings : last_readings[k] \in Nat)
    /\ [][PublishStep =>
              LET fetched == readings'
                  fresh == { k \in DOMAIN fetched : ~IsNone(fetched[k]) }
              IN  /\ DOMAIN last_readings' = DOMAIN last_readings \cup fresh
                  /\ \A k \in fresh : last_readings'[k] = Val(fetched[k])
                  /\ \A k \in DOMAIN last_readings \ fresh :
                         last_readings'[k] = last_readings[k]]_vars
    /\ [][(last_readings' # last_readings /\ ~PublishStep) =>
              (last_readings' = EmptyDict /\ h_cleared')]_vars

\* A published cycle that fetched a value for one classifier and none for
\* another: the cache holds the new value of the first and still holds the
\* earlier value of the second.
C24_Witness ==
    /\ op = "idle"
    /\ last_update.status = "published"
    /\ \E j, k \in DOMAIN readings :
           /\ ~IsNone(readings[j])
           /\ j \in DOMAIN last_readings
           /\ last_readings[j] = Val(readings[j])
           /\ IsNone(readings[k])
           /\ k \in DOMAIN last_readings

=============================================================================
